---- MODULE Spec2Model ----
(***************************************************************************)
(* Model of AIND-Recognizer: the model selectors of my_model_selectors.py  *)
(* (SelectorConstant, SelectorBIC, SelectorDIC, SelectorCV) and            *)
(* recognize() of my_recognizer.py.                                        *)
(*                                                                         *)
(* The HMM trainer (GaussianHMM.fit) and the scorer (model.score) are      *)
(* external: a fit either returns a model or raises, a score either        *)
(* returns a finite log-likelihood or raises.  Their outcomes are chosen   *)
(* nondeterministically the first time a call is made and remembered       *)
(* (fitMemo, scoreMemo), because the trainer is seeded with a fixed        *)
(* random_state and is therefore a function of its inputs.                 *)
(*                                                                         *)
(* Python indices are 0-based; the sequences below are 1-based.            *)
(***************************************************************************)
EXTENDS Integers, Sequences, FiniteSets, TLC

VARIABLES
    strategy,                 \* which ModelSelector subclass the instance is
    words,                    \* self.words: the vocabulary, in dict order
    hwords,                   \* self.hwords: word -> [X, lengths]
    this_word,                \* self.this_word
    sequences,                \* self.sequences: the focal word's sequence list
    X,                        \* self.X
    lengths,                  \* self.lengths
    n_constant,               \* self.n_constant
    pc,                       \* position of the running call
    i,                        \* loop variable of select()
    best_model,               \* local best_model
    lowest_BIC,               \* local of SelectorBIC.select
    highest_DIC,              \* local of SelectorDIC.select
    best_avg_logL,            \* local of SelectorCV.select
    model_using_training_set, \* local of SelectorCV.select
    fitMemo,                  \* outcomes of the fits made so far
    scoreMemo,                \* outcomes of the scores made so far
    result,                   \* how the last finished select() ended
    first_result,             \* how the first select() on this instance ended
    calls,                    \* number of finished select() calls
    models,                   \* recognize(): the model bank, words in dict order
    test_set,                 \* recognize(): per item, the outcome of each word's score
    word_id,                  \* recognize(): number of test items processed
    probabilities,            \* recognize(): list of score tables
    guesses                   \* recognize(): list of guesses

selectorVars == <<strategy, words, hwords, this_word, sequences, X, lengths, n_constant>>
loopVars == <<i, best_model, lowest_BIC, highest_DIC, best_avg_logL, model_using_training_set>>
memoVars == <<fitMemo, scoreMemo>>
callVars == <<result, first_result, calls>>
recVars == <<models, test_set, word_id, probabilities, guesses>>
vars == <<selectorVars, loopVars, memoVars, callVars, recVars, pc>>

---------------------------------------------------------------------------
(* Bounds and program constants *)

\* default of min_n_components
min_n_components == 2
\* upper end of the candidate range (default 10 in the source)
max_n_components == 3
\* largest number of training sequences of the focal word
MaxSeqs == 3
\* largest number of test items given to recognize()
MaxItems == 2
\* model.n_features: the dimension of an observation row
n_features == 1

Vocabulary == <<"A", "B", "C">>
\* finite log-likelihoods a score may return
LogLValues == {0, 4}
\* n_constant: the default 3, or a value outside the candidate range
NConstants == {3, max_n_components + 2}

---------------------------------------------------------------------------
(* Extended reals: float('-inf'), float('inf') and finite values *)

Fin(x) == [inf |-> 0, v |-> x]
NegInf == [inf |-> -1, v |-> 0]
PosInf == [inf |-> 1, v |-> 0]
\* a < b on floats
LT(a, b) == \/ a.inf < b.inf
            \/ (a.inf = 0 /\ b.inf = 0 /\ a.v < b.v)

---------------------------------------------------------------------------
(* Training data *)

RECURSIVE Concat(_)
Concat(ss) == IF ss = <<>> THEN <<>> ELSE Head(ss) \o Concat(Tail(ss))

\* the k-th recorded sequence of word w: k observation rows
SequenceOf(w, k) == [r \in 1..k |-> <<w, k, r>>]
SequencesOf(w, n) == [k \in 1..n |-> SequenceOf(w, k)]

\* asl_utils.combine_sequences(split_index_list, sequences) -> (X, lengths)
combine_sequences(idx, seqs) ==
    [X |-> Concat([k \in 1..Len(idx) |-> seqs[idx[k]]]),
     lengths |-> [k \in 1..Len(idx) |-> Len(seqs[idx[k]])]]

\* all_word_Xlengths[w] for a word with the given sequences
XlengthsOf(seqs) == combine_sequences([k \in 1..Len(seqs) |-> k], seqs)

---------------------------------------------------------------------------
(* The external trainer and scorer *)

None == [kind |-> "None", n |-> 0, X |-> <<>>, lengths |-> <<>>]
\* the model GaussianHMM(n_components=n, random_state=...).fit(X, lengths) returns
Model(n, X0, l0) == [kind |-> "model", n |-> n, X |-> X0, lengths |-> l0]

Fail == [ok |-> FALSE, v |-> 0]
Ok(v) == [ok |-> TRUE, v |-> v]
ScoreOutcomes == {Fail} \cup {Ok(v) : v \in LogLValues}

\* outcomes the fit of n states on (X0, l0) can have, given the fits made so far
FitOutcomes(n, X0, l0) ==
    IF <<n, X0, l0>> \in DOMAIN fitMemo THEN {fitMemo[<<n, X0, l0>>]} ELSE BOOLEAN

\* outcomes m.score(X0, l0) can have; None has no score attribute (AttributeError)
ScoreOutcomesOf(m, X0, l0) ==
    IF m = None THEN {Fail}
    ELSE IF <<m, X0, l0>> \in DOMAIN scoreMemo THEN {scoreMemo[<<m, X0, l0>>]}
    ELSE ScoreOutcomes

\* ModelSelector.base_model(num_states), given whether the fit succeeds
base_model(num_states, ok) == IF ok THEN Model(num_states, X, lengths) ELSE None

Remember(memo, key, val) == IF key \in DOMAIN memo THEN memo ELSE memo @@ (key :> val)
RememberScore(memo, m, X0, l0, val) ==
    IF m = None THEN memo ELSE Remember(memo, <<m, X0, l0>>, val)

---------------------------------------------------------------------------
(* Construction *)

NoResult == [ret |-> "pending", model |-> None, fallback |-> FALSE]
Returned(m, fb) == [ret |-> "return", model |-> m, fallback |-> fb]
Raised == [ret |-> "raise", model |-> None, fallback |-> FALSE]

Strategies == {"Constant", "BIC", "DIC", "CV"}

\* ModelSelector.__init__
Init ==
    /\ strategy \in Strategies
    /\ \E M \in 1..Len(Vocabulary), n \in 1..MaxSeqs :
         /\ words = SubSeq(Vocabulary, 1, M)
         /\ this_word \in {Vocabulary[k] : k \in 1..M}
         /\ sequences = SequencesOf(this_word, n)
         /\ hwords = [w \in {Vocabulary[k] : k \in 1..M} |->
                        IF w = this_word THEN XlengthsOf(SequencesOf(w, n))
                        ELSE XlengthsOf(SequencesOf(w, 1))]
    /\ X = hwords[this_word].X
    /\ lengths = hwords[this_word].lengths
    /\ n_constant \in NConstants
    /\ pc = "idle"
    /\ i = min_n_components
    /\ best_model = None
    /\ lowest_BIC = PosInf
    /\ highest_DIC = NegInf
    /\ best_avg_logL = NegInf
    /\ model_using_training_set = None
    /\ fitMemo = <<>>
    /\ scoreMemo = <<>>
    /\ result = NoResult
    /\ first_result = NoResult
    /\ calls = 0
    /\ models = <<>>
    /\ test_set = <<>>
    /\ word_id = 0
    /\ probabilities = <<>>
    /\ guesses = <<>>

\* select() returns or raises: the call is over
Finish(r) ==
    /\ pc' = "done"
    /\ result' = r
    /\ first_result' = IF calls = 0 THEN r ELSE first_result
    /\ calls' = calls + 1

\* the caller invokes select() once more on the same selector instance
CallAgain ==
    /\ pc = "done"
    /\ calls = 1
    /\ pc' = "idle"
    /\ UNCHANGED <<selectorVars, loopVars, memoVars, callVars, recVars>>

---------------------------------------------------------------------------
(* SelectorConstant *)

ConstantSelect ==
    /\ strategy = "Constant"
    /\ pc = "idle"
    /\ \E ok \in FitOutcomes(n_constant, X, lengths) :
         /\ fitMemo' = Remember(fitMemo, <<n_constant, X, lengths>>, ok)
         /\ Finish(Returned(base_model(n_constant, ok), FALSE))
    /\ UNCHANGED <<selectorVars, loopVars, scoreMemo, recVars>>

---------------------------------------------------------------------------
(* The tail of BIC, DIC and CV select(): best model, else the fallback *)

ReturnBest ==
    /\ strategy \in {"BIC", "DIC", "CV"}
    /\ pc = "return"
    /\ IF best_model # None
         THEN /\ Finish(Returned(best_model, FALSE))
              /\ UNCHANGED fitMemo
         ELSE \E ok \in FitOutcomes(n_constant, X, lengths) :
                /\ fitMemo' = Remember(fitMemo, <<n_constant, X, lengths>>, ok)
                /\ Finish(Returned(base_model(n_constant, ok), TRUE))
    /\ UNCHANGED <<selectorVars, loopVars, scoreMemo, recVars>>

\* the loop with its upper end one too far: range(min, max + 2)
NextCandidateOffByOne ==
    /\ i' = IF i < max_n_components + 1 THEN i + 1 ELSE i
    /\ pc' = IF i < max_n_components + 1 THEN "loop" ELSE "return"

\* the for loop advances to the next candidate or ends
NextCandidate ==
    /\ i' = IF i < max_n_components THEN i + 1 ELSE i
    /\ pc' = IF i < max_n_components THEN "loop" ELSE "return"

---------------------------------------------------------------------------
(* SelectorBIC *)

\* np.log(N), in millionths
LogMicro(N) ==
    <<0, 693147, 1098612, 1386294, 1609437, 1791759, 1945910, 2079441,
      2197224, 2302585, 2397895, 2484906, 2564949, 2639057, 2708050>>[N]

\* the parameter count with the transition term linear in the state count
FreeParamsLinear(n) == n + 2 * n * n_features - 1

\* p = i**2 + 2*i*model.n_features - 1
FreeParams(n) == n * n + 2 * n * n_features - 1

\* BIC = -2*logL + p*logN, in millionths
BICValue(logL, n, N) == -2 * logL * 1000000 + FreeParams(n) * LogMicro(N)

\* if BIC < lowest_BIC
BICImproves(BIC, lowest) == LT(BIC, lowest)

BICBegin ==
    /\ strategy = "BIC"
    /\ pc = "idle"
    /\ pc' = "loop"
    /\ i' = min_n_components
    /\ best_model' = None
    /\ lowest_BIC' = PosInf
    /\ UNCHANGED <<selectorVars, highest_DIC, best_avg_logL, model_using_training_set,
                   memoVars, callVars, recVars>>

\* one iteration of the for loop of SelectorBIC.select
BICStep ==
    /\ strategy = "BIC"
    /\ pc = "loop"
    /\ \E ok \in FitOutcomes(i, X, lengths) :
       LET model == base_model(i, ok) IN
       \E s \in ScoreOutcomesOf(model, X, lengths) :
         /\ fitMemo' = Remember(fitMemo, <<i, X, lengths>>, ok)
         /\ scoreMemo' = RememberScore(scoreMemo, model, X, lengths, s)
         /\ IF s.ok /\ BICImproves(Fin(BICValue(s.v, i, Len(X))), lowest_BIC)
              THEN /\ best_model' = model
                   /\ lowest_BIC' = Fin(BICValue(s.v, i, Len(X)))
              ELSE UNCHANGED <<best_model, lowest_BIC>>
    /\ NextCandidate
    /\ UNCHANGED <<selectorVars, highest_DIC, best_avg_logL, model_using_training_set,
                   callVars, recVars>>

---------------------------------------------------------------------------
(* SelectorDIC *)

\* the words of self.hwords other than this_word, in iteration order
OtherWords == SelectSeq(words, LAMBDA w : w # this_word)

RECURSIVE SumSeq(_)
SumSeq(q) == IF q = <<>> THEN 0 ELSE Head(q) + SumSeq(Tail(q))

\* the other words' likelihoods added instead of subtracted
DICValueSum(logL, logLs_but_i, M) == (M - 1) * logL + SumSeq(logLs_but_i)

\* DIC = logL - sum(logLs_but_i)/(M - 1), multiplied by M - 1 (positive here)
DICValue(logL, logLs_but_i, M) == (M - 1) * logL - SumSeq(logLs_but_i)

\* if DIC > highest_DIC
DICImproves(DIC, highest) == LT(highest, DIC)

\* the position of the first other word whose score raises (Len + 1 if none)
FirstFailure(os) ==
    IF \E k \in 1..Len(os) : ~os[k].ok
      THEN CHOOSE k \in 1..Len(os) : ~os[k].ok /\ \A j \in 1..(k - 1) : os[j].ok
      ELSE Len(os) + 1

DICBegin ==
    /\ strategy = "DIC"
    /\ pc = "idle"
    /\ pc' = "loop"
    /\ i' = min_n_components
    /\ best_model' = None
    /\ highest_DIC' = NegInf
    /\ UNCHANGED <<selectorVars, lowest_BIC, best_avg_logL, model_using_training_set,
                   memoVars, callVars, recVars>>

\* one iteration of the for loop of SelectorDIC.select
DICStep ==
    /\ strategy = "DIC"
    /\ pc = "loop"
    /\ \E ok \in FitOutcomes(i, X, lengths) :
       LET model == base_model(i, ok)
           others == OtherWords
           M == Len(words)
       IN
       \E s \in ScoreOutcomesOf(model, X, lengths) :
       \E os \in [1..Len(others) -> ScoreOutcomes] :
         LET \* the other-word scores made: none after the first exception
             made == IF s.ok THEN 1..(IF FirstFailure(os) <= Len(others)
                                        THEN FirstFailure(os) ELSE Len(others))
                     ELSE {}
             keyOf(k) == <<model, hwords[others[k]].X, hwords[others[k]].lengths>>
             \* ZeroDivisionError when M = 1
             computed == s.ok /\ FirstFailure(os) > Len(others) /\ M # 1
             DIC == Fin(DICValue(s.v, [k \in 1..Len(others) |-> os[k].v], M))
         IN
         /\ \A k \in made : os[k] \in ScoreOutcomesOf(model, hwords[others[k]].X,
                                                       hwords[others[k]].lengths)
         /\ \A k \in (1..Len(others)) \ made : os[k] = Fail
         /\ fitMemo' = Remember(fitMemo, <<i, X, lengths>>, ok)
         /\ scoreMemo' =
              LET own == RememberScore(scoreMemo, model, X, lengths, s)
                  keys == DOMAIN own \cup {keyOf(k) : k \in made}
              IN [key \in keys |->
                    IF key \in DOMAIN own THEN own[key]
                    ELSE os[CHOOSE k \in made : keyOf(k) = key]]
         /\ IF computed /\ DICImproves(DIC, highest_DIC)
              THEN /\ best_model' = model
                   /\ highest_DIC' = DIC
              ELSE UNCHANGED <<best_model, highest_DIC>>
    /\ NextCandidate
    /\ UNCHANGED <<selectorVars, lowest_BIC, best_avg_logL, model_using_training_set,
                   callVars, recVars>>

---------------------------------------------------------------------------
(* SelectorCV *)

\* first test fold of KFold(n_splits=2) on n samples: n // 2 + n % 2 samples
FirstFoldSize(n) == (n \div 2) + (n % 2)

\* KFold(n_splits=2).split on n >= 2 samples: (train, test) index lists, in order
KFoldSplit(n) ==
    LET a == [k \in 1..FirstFoldSize(n) |-> k]
        b == [k \in 1..(n - FirstFoldSize(n)) |-> FirstFoldSize(n) + k]
    IN << [train |-> b, test |-> a], [train |-> a, test |-> b] >>

\* the fit made before self.X, self.lengths are assigned for the fold
CVFitDataStale(foldTrain, stale) == stale

\* the data base_model(i) is fitted on in a fold: self.X, self.lengths as just
\* assigned from the fold's training indices (stale is their previous value)
CVFitData(foldTrain, stale) == foldTrain

\* np.mean(logLs), multiplied by 2 (there are at most 2 folds)
MeanTimes2(logLs) == (2 * SumSeq(logLs)) \div Len(logLs)

\* if avg_logL > best_avg_logL
CVImproves(avg, best) == LT(best, avg)

CVBegin ==
    /\ strategy = "CV"
    /\ pc = "idle"
    /\ pc' = "loop"
    /\ i' = min_n_components
    /\ best_model' = None
    /\ best_avg_logL' = NegInf
    /\ UNCHANGED <<selectorVars, lowest_BIC, highest_DIC, model_using_training_set,
                   memoVars, callVars, recVars>>

\* KFold.split raises ValueError when there are fewer samples than splits;
\* the for statement is outside the try, so select() raises
CVSplitRaises ==
    /\ strategy = "CV"
    /\ pc = "loop"
    /\ Len(sequences) < 2
    /\ Finish(Raised)
    /\ UNCHANGED <<selectorVars, loopVars, memoVars, recVars>>

\* one iteration of the outer for loop of SelectorCV.select: both folds
CVStep ==
    /\ strategy = "CV"
    /\ pc = "loop"
    /\ Len(sequences) >= 2
    /\ LET folds == KFoldSplit(Len(sequences))
           train1 == combine_sequences(folds[1].train, sequences)
           test1 == combine_sequences(folds[1].test, sequences)
           train2 == combine_sequences(folds[2].train, sequences)
           test2 == combine_sequences(folds[2].test, sequences)
           d1 == CVFitData(train1, [X |-> X, lengths |-> lengths])
           d2 == CVFitData(train2, train1)
       IN
       \E ok1 \in FitOutcomes(i, d1.X, d1.lengths), ok2 \in FitOutcomes(i, d2.X, d2.lengths) :
       LET m1 == IF ok1 THEN Model(i, d1.X, d1.lengths) ELSE None
           m2 == IF ok2 THEN Model(i, d2.X, d2.lengths) ELSE None
       IN
       \E s1 \in ScoreOutcomesOf(m1, test1.X, test1.lengths),
          s2 \in ScoreOutcomesOf(m2, test2.X, test2.lengths) :
       LET logLs == (IF s1.ok THEN <<s1.v>> ELSE <<>>) \o (IF s2.ok THEN <<s2.v>> ELSE <<>>)
           avg_logL == IF Len(logLs) > 0 THEN Fin(MeanTimes2(logLs)) ELSE NegInf
       IN
         /\ X' = train2.X
         /\ lengths' = train2.lengths
         /\ fitMemo' = Remember(Remember(fitMemo, <<i, d1.X, d1.lengths>>, ok1),
                                <<i, d2.X, d2.lengths>>, ok2)
         /\ scoreMemo' = RememberScore(
                           RememberScore(scoreMemo, m1, test1.X, test1.lengths, s1),
                           m2, test2.X, test2.lengths, s2)
         /\ model_using_training_set' = m2
         /\ IF CVImproves(avg_logL, best_avg_logL)
              THEN /\ best_avg_logL' = avg_logL
                   /\ best_model' = m2
              ELSE UNCHANGED <<best_avg_logL, best_model>>
    /\ NextCandidate
    /\ UNCHANGED <<strategy, words, hwords, this_word, sequences, n_constant,
                   lowest_BIC, highest_DIC, callVars, recVars>>

---------------------------------------------------------------------------
(* recognize(models, test_set) *)

\* no default entry: a word whose scoring raises gets no key
DefaultEntryOmitted(probability, word) == probability

\* probability[word] = float('-inf'), before the try
DefaultEntry(probability, word) == (word :> NegInf) @@ probability

\* probability[word] = logL
RecordScore(probability, word, logL) == (word :> Fin(logL)) @@ probability

\* the comparison turned around
GuessImprovesReversed(logL, best_logL) == LT(logL, best_logL)

\* if logL > best_logL
GuessImproves(logL, best_logL) == LT(best_logL, logL)

\* the inner for loop over models.items(), from the k-th word on; s is the
\* outcome of each word's model.score on the item
RECURSIVE ScoreWords(_, _, _)
ScoreWords(s, k, acc) ==
    IF k > Len(models) THEN acc
    ELSE LET word == models[k]
             p0 == DefaultEntry(acc.probability, word)
         IN IF ~s[word].ok
              THEN ScoreWords(s, k + 1, [acc EXCEPT !.probability = p0])
              ELSE ScoreWords(s, k + 1,
                     IF GuessImproves(Fin(s[word].v), acc.best_logL)
                       THEN [probability |-> RecordScore(p0, word, s[word].v),
                             best_logL |-> Fin(s[word].v),
                             best_guess |-> word]
                       ELSE [acc EXCEPT !.probability = RecordScore(p0, word, s[word].v)])

\* the state after the call recognize(models, test_set) is entered
InitRecognize ==
    /\ \E M \in 0..Len(Vocabulary), n \in 0..MaxItems :
         /\ models = SubSeq(Vocabulary, 1, M)
         /\ test_set \in [1..n -> [{Vocabulary[k] : k \in 1..M} -> ScoreOutcomes]]
    /\ word_id = 0
    /\ probabilities = <<>>
    /\ guesses = <<>>
    /\ pc = "recognize"
    /\ strategy = "none"
    /\ words = <<>>
    /\ hwords = <<>>
    /\ this_word = ""
    /\ sequences = <<>>
    /\ X = <<>>
    /\ lengths = <<>>
    /\ n_constant = 3
    /\ i = min_n_components
    /\ best_model = None
    /\ lowest_BIC = PosInf
    /\ highest_DIC = NegInf
    /\ best_avg_logL = NegInf
    /\ model_using_training_set = None
    /\ fitMemo = <<>>
    /\ scoreMemo = <<>>
    /\ result = NoResult
    /\ first_result = NoResult
    /\ calls = 0

\* one iteration of the outer for loop: the next test item, all words
RecognizeItem ==
    /\ pc = "recognize"
    /\ word_id < Len(test_set)
    /\ LET r == ScoreWords(test_set[word_id + 1], 1,
                           [probability |-> <<>>, best_logL |-> NegInf, best_guess |-> ""])
       IN /\ probabilities' = Append(probabilities, r.probability)
          /\ guesses' = Append(guesses, r.best_guess)
    /\ word_id' = word_id + 1
    /\ UNCHANGED <<selectorVars, loopVars, memoVars, callVars, models, test_set, pc>>

\* return probabilities, guesses
RecognizeReturn ==
    /\ pc = "recognize"
    /\ word_id = Len(test_set)
    /\ pc' = "done"
    /\ UNCHANGED <<selectorVars, loopVars, memoVars, callVars, recVars>>

NextRecognize == RecognizeItem \/ RecognizeReturn

SpecRecognize == InitRecognize /\ [][NextRecognize]_vars

---------------------------------------------------------------------------

Next ==
    \/ ConstantSelect
    \/ BICBegin
    \/ BICStep
    \/ DICBegin
    \/ DICStep
    \/ CVBegin
    \/ CVSplitRaises
    \/ CVStep
    \/ ReturnBest

Spec == Init /\ [][Next]_vars

\* two select() calls in succession on one instance of a two-word corpus
InitTwice ==
    /\ Init
    /\ words = SubSeq(Vocabulary, 1, 2)
    /\ this_word = Vocabulary[1]

NextTwice == Next \/ CallAgain

SpecTwice == InitTwice /\ [][NextTwice]_vars

---------------------------------------------------------------------------
(* What the trainer and the scorer did, read back from the calls made *)

Candidates == min_n_components..max_n_components
FullX == hwords[this_word].X
FullLengths == hwords[this_word].lengths

Fitted(n, X0, l0) == <<n, X0, l0>> \in DOMAIN fitMemo /\ fitMemo[<<n, X0, l0>>]
Scored(m, X0, l0) == <<m, X0, l0>> \in DOMAIN scoreMemo /\ scoreMemo[<<m, X0, l0>>].ok
LogLOf(m, X0, l0) == scoreMemo[<<m, X0, l0>>].v

SelectReturned == pc = "done" /\ result.ret = "return"
ReturnedModel == SelectReturned /\ result.model # None

---------------------------------------------------------------------------
(* C1 *)

\* C1: whenever select() of any strategy returns a model, its number of
\* hidden states lies in [min_n_components, max_n_components] or equals
\* n_constant.
C1_StateCountInRangeOrConstant ==
    ReturnedModel => result.model.n \in Candidates \cup {n_constant}

\* a searching strategy returns the largest candidate, which is not n_constant
C1_Witness ==
    /\ ReturnedModel
    /\ strategy = "CV"
    /\ result.model.n = max_n_components
    /\ n_constant # max_n_components

---------------------------------------------------------------------------
(* C2 *)

\* every fit made for a num_states of the candidate range failed
AllCandidateFitsFailed ==
    \A key \in DOMAIN fitMemo : key[1] \in Candidates => ~fitMemo[key]

\* C2: if the trainer fails for every num_states of the range, select() of
\* every strategy, for a focal word with at least one sequence, ends by
\* returning the model of fit(n_constant), or None if that fit fails too; it
\* never raises.
C2_FallbackThenNoneNeverRaises ==
    (pc = "done" /\ strategy \in Strategies /\ Len(sequences) >= 1 /\ AllCandidateFitsFailed)
    => /\ result.ret = "return"
       /\ \E key \in DOMAIN fitMemo : key[1] = n_constant
       /\ result.model # None => result.model.n = n_constant
       /\ result.model = None <=>
            \E key \in DOMAIN fitMemo : key[1] = n_constant /\ ~fitMemo[key]

---------------------------------------------------------------------------
(* C3 *)

\* fold f of KFold on the focal word's sequences, as (X, lengths) pairs
FoldTrain(f) == combine_sequences(KFoldSplit(Len(sequences))[f].train, sequences)
FoldTest(f) == combine_sequences(KFoldSplit(Len(sequences))[f].test, sequences)
FoldModel(n, f) == Model(n, FoldTrain(f).X, FoldTrain(f).lengths)
\* candidate n was fitted and scored successfully on fold f
FoldSucceeded(n, f) ==
    /\ Fitted(n, FoldTrain(f).X, FoldTrain(f).lengths)
    /\ Scored(FoldModel(n, f), FoldTest(f).X, FoldTest(f).lengths)
FoldLogL(n, f) == LogLOf(FoldModel(n, f), FoldTest(f).X, FoldTest(f).lengths)
CVScored == {n \in Candidates : FoldSucceeded(n, 1) \/ FoldSucceeded(n, 2)}
\* twice the mean of the held-out log-likelihoods of the folds that succeeded
TwiceMean(n) ==
    IF FoldSucceeded(n, 1) /\ FoldSucceeded(n, 2) THEN FoldLogL(n, 1) + FoldLogL(n, 2)
    ELSE IF FoldSucceeded(n, 1) THEN 2 * FoldLogL(n, 1)
    ELSE 2 * FoldLogL(n, 2)
CVBest == {n \in CVScored : \A m \in CVScored : TwiceMean(m) <= TwiceMean(n)}

\* C3: SelectorCV.select() on a word with at least 2 sequences: if some fold
\* of some candidate was fitted and scored, the returned model is not the
\* fallback and its state count has the maximum mean held-out log-likelihood;
\* the fallback is returned only when no fold of any candidate succeeded.
C3_CVReturnsBestMean ==
    (pc = "done" /\ strategy = "CV" /\ Len(sequences) >= 2)
    => /\ CVScored # {} => /\ result.ret = "return"
                           /\ ~result.fallback
                           /\ result.model # None
                           /\ result.model.n \in CVBest
       /\ result.fallback => CVScored = {}

---------------------------------------------------------------------------
(* C4 *)

\* candidates whose fit and self-score both succeeded
BICScored == {n \in Candidates : /\ Fitted(n, FullX, FullLengths)
                                 /\ Scored(Model(n, FullX, FullLengths), FullX, FullLengths)}
\* -2*logL + p*log(N) with p = n^2 + 2*n*num_features - 1, in millionths
BICOf(n) ==
    -2000000 * LogLOf(Model(n, FullX, FullLengths), FullX, FullLengths)
    + (n * n + 2 * n * n_features - 1) * LogMicro(Len(FullX))

\* C4: SelectorBIC.select() tries every candidate, returns a candidate of
\* minimum BIC among those whose fit and self-score succeeded, and returns the
\* fallback only when none produced a BIC.
C4_BICReturnsMinimum ==
    (pc = "done" /\ strategy = "BIC")
    => /\ \A n \in Candidates : <<n, FullX, FullLengths>> \in DOMAIN fitMemo
       /\ result.ret = "return"
       /\ BICScored # {} => /\ ~result.fallback
                            /\ result.model = Model(result.model.n, FullX, FullLengths)
                            /\ result.model.n \in BICScored
                            /\ \A m \in BICScored : BICOf(result.model.n) <= BICOf(m)
       /\ result.fallback <=> BICScored = {}

\* the largest candidate wins although a smaller one was fitted and scored,
\* on data with more than one row
C4_Witness ==
    /\ pc = "done" /\ strategy = "BIC"
    /\ ~result.fallback
    /\ result.model.n = max_n_components
    /\ min_n_components \in BICScored
    /\ Len(FullX) > 1

\* a candidate whose fit failed was skipped and a later one returned
C4_WitnessSkip ==
    /\ pc = "done" /\ strategy = "BIC"
    /\ ~result.fallback
    /\ ~Fitted(min_n_components, FullX, FullLengths)

---------------------------------------------------------------------------
(* C5 *)

OtherWordSet == {w \in DOMAIN hwords : w # this_word}
\* candidates whose fit, own-word score and every other-word score succeeded
DICScored ==
    {n \in Candidates :
       /\ Fitted(n, FullX, FullLengths)
       /\ Scored(Model(n, FullX, FullLengths), FullX, FullLengths)
       /\ \A w \in OtherWordSet :
            Scored(Model(n, FullX, FullLengths), hwords[w].X, hwords[w].lengths)}
RECURSIVE SumOver(_, _)
SumOver(n, ws) ==
    IF ws = {} THEN 0
    ELSE LET w == CHOOSE w \in ws : TRUE
         IN LogLOf(Model(n, FullX, FullLengths), hwords[w].X, hwords[w].lengths)
            + SumOver(n, ws \ {w})
\* (M - 1) * DIC: comparing logL - sum/(M-1) is comparing (M-1)*logL - sum
ScaledDICOf(n) ==
    Cardinality(OtherWordSet) * LogLOf(Model(n, FullX, FullLengths), FullX, FullLengths)
    - SumOver(n, OtherWordSet)
\* a candidate that one other word's score disqualified
DICDisqualified(n) ==
    /\ Fitted(n, FullX, FullLengths)
    /\ Scored(Model(n, FullX, FullLengths), FullX, FullLengths)
    /\ n \notin DICScored

\* C5: SelectorDIC.select() on a vocabulary of at least 2 words returns a
\* candidate of maximum DIC among those whose fit, own-word score and every
\* other-word score succeeded; a candidate with a failing other-word score is
\* disqualified and the search goes on.
C5_DICReturnsMaximum ==
    (pc = "done" /\ strategy = "DIC" /\ Len(words) >= 2)
    => /\ \A n \in Candidates : <<n, FullX, FullLengths>> \in DOMAIN fitMemo
       /\ result.ret = "return"
       /\ DICScored # {} => /\ ~result.fallback
                            /\ result.model = Model(result.model.n, FullX, FullLengths)
                            /\ result.model.n \in DICScored
                            /\ \A m \in DICScored : ScaledDICOf(m) <= ScaledDICOf(result.model.n)
       /\ result.fallback <=> DICScored = {}

\* with two other words, the smallest candidate is disqualified by an
\* other-word score and the largest is returned
C5_Witness ==
    /\ pc = "done" /\ strategy = "DIC" /\ Len(words) = 3
    /\ DICDisqualified(min_n_components)
    /\ ~result.fallback
    /\ result.model.n = max_n_components

---------------------------------------------------------------------------
(* C6 *)

BankWords == {models[k] : k \in 1..Len(models)}
RecognizeReturned == pc = "done" /\ strategy = "none"

\* C6: recognize() returns two lists with one entry per test item, entry k
\* of both made from the k-th item; every score table has exactly the bank's
\* words as keys, each holding the word's log-likelihood for that item, or
\* negative infinity where its scoring raised.
C6_OutputsAligned ==
    RecognizeReturned
    => /\ Len(probabilities) = Len(test_set)
       /\ Len(guesses) = Len(test_set)
       /\ \A k \in 1..Len(test_set) :
            /\ DOMAIN probabilities[k] = BankWords
            /\ \A w \in BankWords :
                 probabilities[k][w] =
                   IF test_set[k][w].ok THEN Fin(test_set[k][w].v) ELSE NegInf
            /\ guesses[k] # "" => /\ guesses[k] \in BankWords
                                  /\ test_set[k][guesses[k]].ok

\* two items with different outcomes, one of them with a failing word
C6_Witness ==
    /\ RecognizeReturned
    /\ Len(test_set) = 2
    /\ Len(models) = 3
    /\ test_set[1] # test_set[2]
    /\ ~test_set[1]["A"].ok /\ test_set[1]["B"].ok
    /\ guesses[1] # guesses[2]

---------------------------------------------------------------------------
(* C7 *)

\* C7: for each test item, if some word scores without raising the guess is
\* a bank word whose recorded score is the maximum of the item's table; the
\* empty-string sentinel appears only when every word's scoring failed; a
\* failing word neither ends recognize() nor stops the later words from
\* being scored.
C7_GuessIsMaximum ==
    RecognizeReturned
    => \A k \in 1..Len(test_set) :
         /\ k <= Len(guesses)
         /\ (\E w \in BankWords : test_set[k][w].ok)
              => /\ guesses[k] \in BankWords
                 /\ \A w \in BankWords :
                      ~LT(probabilities[k][guesses[k]], probabilities[k][w])
         /\ guesses[k] = "" => \A w \in BankWords : ~test_set[k][w].ok
         /\ \A j \in 1..Len(models) :
              test_set[k][models[j]].ok
                => probabilities[k][models[j]] = Fin(test_set[k][models[j]].v)

\* the first word fails to score, a later word scores and is the guess
C7_Witness ==
    /\ RecognizeReturned
    /\ Len(test_set) >= 1
    /\ Len(models) = 3
    /\ ~test_set[1]["A"].ok
    /\ test_set[1]["B"].ok /\ test_set[1]["C"].ok
    /\ test_set[1]["B"].v < test_set[1]["C"].v
    /\ guesses[1] = "C"

---------------------------------------------------------------------------
(* C8 *)

\* C8: two select() calls in succession on one selector instance end the
\* same way: models of the same state count, or None both times.
C8_SecondCallSameStateCount ==
    calls = 2
    => /\ result.ret = first_result.ret
       /\ result.model.kind = first_result.model.kind
       /\ result.model.n = first_result.model.n

\* the second SelectorCV call started from the X left by the first and
\* returned a searched model
C8_Witness ==
    /\ calls = 2
    /\ strategy = "CV"
    /\ X # FullX
    /\ ~result.fallback
    /\ result.model # None

---------------------------------------------------------------------------
(* C9 *)

\* C9: select() of every strategy leaves self.X and self.lengths as given at
\* construction, so the fallback fit(n_constant) is trained on all of the
\* focal word's sequences.
C9_TrainingDataUnchanged ==
    pc = "done" /\ strategy \in Strategies
    => /\ X = FullX
       /\ lengths = FullLengths
       /\ (result.fallback /\ result.model # None)
            => (result.model.X = FullX /\ result.model.lengths = FullLengths)

---------------------------------------------------------------------------
(* C10 *)

BICBest == {n \in BICScored : \A m \in BICScored : BICOf(n) <= BICOf(m)}
DICBest == {n \in DICScored : \A m \in DICScored : ScaledDICOf(m) <= ScaledDICOf(n)}
\* the candidates attaining the best criterion value of the running strategy
BestCandidates ==
    IF strategy = "BIC" THEN BICBest
    ELSE IF strategy = "DIC" THEN (IF Len(words) >= 2 THEN DICBest ELSE {})
    ELSE IF strategy = "CV" /\ Len(sequences) >= 2 THEN CVBest
    ELSE {}
Least(S) == CHOOSE n \in S : \A m \in S : n <= m

\* C10: in SelectorBIC, SelectorDIC and SelectorCV, when two or more
\* candidates attain the same best criterion value, the returned model has
\* the smallest such num_states.
C10_TieGoesToSmallest ==
    (pc = "done" /\ Cardinality(BestCandidates) >= 2)
    => /\ result.ret = "return"
       /\ result.model # None
       /\ result.model.n = Least(BestCandidates)

====
